---- MODULE Spec2Model ----
(***************************************************************************)
(* Model of the competitor-price tracker core (price_tracker_core.py) and  *)
(* of the loader of the dashboard (app.py): construction and validation of *)
(* ProductRanking records from raw mappings, the Trovaprezzi client, and   *)
(* PriceIntelligenceEngine.enrich_data.                                    *)
(*                                                                         *)
(* Numbers.  Every raw JSON number is held in thousandths (Unit), so a     *)
(* float field keeps sub-cent amounts and an int field can be offered a    *)
(* fractional number.  Record fields typed float are thousandths, record   *)
(* fields typed int are plain integers.  Text values of the model are      *)
(* non-numeric text.  The timestamp field (datetime.now) is left out.      *)
(***************************************************************************)
EXTENDS Integers, Sequences, FiniteSets

VARIABLES pc, net, raw_data, products, raised, log, calls

vars == <<pc, net, raw_data, products, raised, log, calls>>

\* ------------------------------------------------------------------ bounds
\* Longest raw payload the backing system returns.
MaxBatch == 3
\* Number of enrich_data calls made on one collection.
MaxEnrichCalls == 2

\* ------------------------------------------------------------------ numbers
\* Thousandths of the monetary unit per unit, and per cent.
Unit == 10 * 10 * 10
Cent == Unit \div 100

\* Literal of the alert condition, `p.popularity_index <= 3`.
HighPriorityPopularityMax == 3

\* round(x, 2): to the nearest cent, an exact tie going to the even cent
\* (on floats the tie is decided by the binary value; the payloads of this
\* model hold no tie).
Round2(x) ==
    LET q == x \div Cent
        r == x % Cent
    IN  IF 2 * r < Cent THEN q * Cent
        ELSE IF 2 * r > Cent THEN (q + 1) * Cent
        ELSE IF q % 2 = 0 THEN q * Cent
        ELSE (q + 1) * Cent

\* ------------------------------------------------------------------ raw JSON values
Absent  == [kind |-> "absent", n |-> 0, s |-> "", items |-> <<>>]
Null    == [kind |-> "null",   n |-> 0, s |-> "", items |-> <<>>]
Num(x)  == [kind |-> "num",    n |-> x, s |-> "", items |-> <<>>]
Str(t)  == [kind |-> "str",    n |-> 0, s |-> t,  items |-> <<>>]
Bool(b) == [kind |-> "bool",   n |-> IF b THEN 1 ELSE 0, s |-> "", items |-> <<>>]
List(xs) == [kind |-> "list",  n |-> 0, s |-> "", items |-> xs]

\* Optional[float] values of a record.
NoneVal == [some |-> FALSE, n |-> 0]
Some(x) == [some |-> TRUE, n |-> x]

\* ------------------------------------------------------------------ field validation (pydantic, lax mode)
StrOk(v) == v.kind = "str"

FloatOk(v) == v.kind \in {"num", "bool"}
FloatOf(v) == IF v.kind = "bool" THEN v.n * Unit ELSE v.n

IntOk(v) == FloatOk(v) /\ FloatOf(v) % Unit = 0
IntOf(v) == FloatOf(v) \div Unit

OptFloatOk(v) == v.kind \in {"absent", "null"} \/ FloatOk(v)
OptFloatOf(v) == IF v.kind \in {"absent", "null"} THEN NoneVal ELSE Some(FloatOf(v))

BoolOk(v) ==
    \/ v.kind \in {"absent", "bool"}
    \/ v.kind = "num" /\ v.n \in {0, Unit}
BoolOf(v) == v.kind # "absent" /\ FloatOf(v) = Unit

\* ------------------------------------------------------------------ BestOffer
BestOfferOk(o) ==
    /\ FloatOk(o.Price)
    /\ StrOk(o.Merchant)
    /\ OptFloatOk(o.Rating)

BestOffer(o) ==
    [price    |-> FloatOf(o.Price),
     merchant |-> o.Merchant.s,
     rating   |-> OptFloatOf(o.Rating)]

\* ------------------------------------------------------------------ ProductRanking
\* Mutant: the validator hands null on to the list validation.
parse_best_offers_KeepsNull(v) == v

\* The 'before' validator of best_offers: null becomes the empty list.
parse_best_offers(v) == IF v.kind # "null" THEN v ELSE List(<<>>)

\* best_offers: the default factory when the key is absent (the validator
\* does not run on a default), else the validated list.
BestOffersOk(v) ==
    \/ v.kind = "absent"
    \/ LET w == parse_best_offers(v)
       IN  /\ w.kind = "list"
           /\ \A i \in 1..Len(w.items) : BestOfferOk(w.items[i])

BestOffersOf(v) ==
    IF v.kind = "absent" THEN <<>>
    ELSE LET w == parse_best_offers(v)
         IN  [i \in 1..Len(w.items) |-> BestOffer(w.items[i])]

\* ProductRanking(**item) raises ValidationError exactly when this is false.
ProductRankingOk(item) ==
    /\ StrOk(item.Sku)
    /\ StrOk(item.Category)
    /\ StrOk(item.Product)
    /\ FloatOk(item.Price)
    /\ FloatOk(item.ShippingCost)
    /\ FloatOk(item.TotalCost)
    /\ FloatOk(item.MinPrice)
    /\ FloatOk(item.MinPriceWithShippingCost)
    /\ IntOk(item.Rank)
    /\ IntOk(item.RankWithShippingCost)
    /\ IntOk(item.NbMerchants)
    /\ IntOk(item.NbOffers)
    /\ IntOk(item.Popularity)
    /\ BestOffersOk(item.BestOffers)
    /\ OptFloatOk(item.price_gap)
    /\ BoolOk(item.is_winning)

\* The record ProductRanking(**item) builds from a valid item.
ProductRanking(item) ==
    [sku                       |-> item.Sku.s,
     category                  |-> item.Category.s,
     product_name              |-> item.Product.s,
     my_price                  |-> FloatOf(item.Price),
     shipping_cost             |-> FloatOf(item.ShippingCost),
     total_cost                |-> FloatOf(item.TotalCost),
     min_price_market          |-> FloatOf(item.MinPrice),
     min_price_shipping_market |-> FloatOf(item.MinPriceWithShippingCost),
     rank                      |-> IntOf(item.Rank),
     rank_with_shipping        |-> IntOf(item.RankWithShippingCost),
     competitors_count         |-> IntOf(item.NbMerchants),
     offers_count              |-> IntOf(item.NbOffers),
     popularity_index          |-> IntOf(item.Popularity),
     best_offers               |-> BestOffersOf(item.BestOffers),
     price_gap                 |-> OptFloatOf(item.price_gap),
     is_winning                |-> BoolOf(item.is_winning)]

\* [ProductRanking(**item) for item in raw_data]: the first invalid item
\* raises out of the comprehension and no list is produced.
BuildAll(raw) ==
    IF \A i \in 1..Len(raw) : ProductRankingOk(raw[i])
    THEN [raised |-> FALSE, value |-> [i \in 1..Len(raw) |-> ProductRanking(raw[i])]]
    ELSE [raised |-> TRUE, value |-> <<>>]

\* ------------------------------------------------------------------ get_mock_data
RawOffer(price, merchant, rating) ==
    [Price |-> Num(price), Merchant |-> Str(merchant), Rating |-> Num(rating)]

Mock1 ==
    [Sku |-> Str("SKU1001A"), Category |-> Str("Profumi Donna"),
     Product |-> Str("Chanel Coco Mademoiselle EdP 100ml"),
     Price |-> Num(135900), ShippingCost |-> Num(0), TotalCost |-> Num(135900),
     MinPrice |-> Num(134900), MinPriceWithShippingCost |-> Num(134900),
     Rank |-> Num(2 * Unit), RankWithShippingCost |-> Num(2 * Unit),
     NbMerchants |-> Num(5 * Unit), NbOffers |-> Num(5 * Unit),
     Popularity |-> Num(1 * Unit),
     BestOffers |-> List(<<RawOffer(134900, "ProfumoX", 4500),
                           RawOffer(135900, "Noi", 4800)>>),
     price_gap |-> Absent, is_winning |-> Absent]

Mock2 ==
    [Sku |-> Str("SKU1002B"), Category |-> Str("Profumi Uomo"),
     Product |-> Str("Dior Sauvage EdT 60ml"),
     Price |-> Num(75500), ShippingCost |-> Num(4900), TotalCost |-> Num(80400),
     MinPrice |-> Num(75500), MinPriceWithShippingCost |-> Num(80400),
     Rank |-> Num(1 * Unit), RankWithShippingCost |-> Num(1 * Unit),
     NbMerchants |-> Num(3 * Unit), NbOffers |-> Num(3 * Unit),
     Popularity |-> Num(5 * Unit),
     BestOffers |-> List(<<RawOffer(75500, "Noi", 4800)>>),
     price_gap |-> Absent, is_winning |-> Absent]

Mock3 ==
    [Sku |-> Str("SKU1003C"), Category |-> Str("Profumi Nicchia"),
     Product |-> Str("Acqua di Parma Fico di Amalfi 75ml"),
     Price |-> Num(89990), ShippingCost |-> Num(0), TotalCost |-> Num(89990),
     MinPrice |-> Num(85000), MinPriceWithShippingCost |-> Num(85000),
     Rank |-> Num(7 * Unit), RankWithShippingCost |-> Num(7 * Unit),
     NbMerchants |-> Num(12 * Unit), NbOffers |-> Num(15 * Unit),
     Popularity |-> Num(55 * Unit),
     BestOffers |-> List(<<RawOffer(85000, "FragranzeTop", 4900),
                           RawOffer(86500, "ScontiProfumi", 4200)>>),
     price_gap |-> Absent, is_winning |-> Absent]

get_mock_data == <<Mock1, Mock2, Mock3>>

\* ------------------------------------------------------------------ payloads of the OffersRanking service
\* Items the service may return that pass validation: the mock items and
\* items that differ from one of them in the market figures.
MarketItems ==
    { Mock1, Mock2, Mock3,
      \* gap 2.00 on a product at the popularity limit
      [Mock1 EXCEPT !.MinPrice = Num(133900),
                    !.MinPriceWithShippingCost = Num(133900),
                    !.Popularity = Num(HighPriorityPopularityMax * Unit)],
      \* first with shipping, second without
      [Mock1 EXCEPT !.RankWithShippingCost = Num(1 * Unit)],
      \* cheaper than the market minimum reported
      [Mock2 EXCEPT !.MinPriceWithShippingCost = Num(80900)],
      \* gap 4.99 just above the popularity limit
      [Mock3 EXCEPT !.Popularity = Num((HighPriorityPopularityMax + 1) * Unit)],
      \* a sub-cent total
      [Mock3 EXCEPT !.Price = Num(85004), !.TotalCost = Num(85004)],
      \* derived fields supplied by the source
      [Mock1 EXCEPT !.price_gap = Num(5000), !.is_winning = Bool(TRUE)],
      \* TotalCost that is not Price + ShippingCost
      [Mock2 EXCEPT !.TotalCost = Num(99000)],
      \* negative amounts
      [Mock2 EXCEPT !.Price = Num(0 - 75500), !.TotalCost = Num(0 - 70600)],
      [Mock2 EXCEPT !.BestOffers = List(<<RawOffer(0 - 75500, "Noi", 4800)>>)],
      \* BestOffers null, BestOffers absent
      [Mock3 EXCEPT !.BestOffers = Null],
      [Mock3 EXCEPT !.BestOffers = Absent] }

\* Items that fail validation.
MalformedItems ==
    { [Mock2 EXCEPT !.Sku = Absent],
      [Mock2 EXCEPT !.Price = Str("abc")],
      [Mock3 EXCEPT !.Rank = Num(2 * Unit + Unit \div 2)] }

RawItems == MarketItems \cup MalformedItems

Payloads == UNION { [1..n -> RawItems] : n \in 0..MaxBatch }

\* ------------------------------------------------------------------ TrovaprezziClient
\* What the network does to the two requests of one call.
NetOutcomes == {"ok", "token_failed", "request_failed"}

\* _get_auth_token: logs the error and raises it again.
get_auth_token(outcome) ==
    IF outcome = "token_failed"
    THEN [raised |-> TRUE, value |-> ""]
    ELSE [raised |-> FALSE, value |-> "Token"]

ErrorEntry(event) ==
    [level |-> "ERROR", event |-> event, product |-> "", gap |-> NoneVal]

\* Mutant: the handler logs and raises again, as _get_auth_token does.
OnFetchError_Reraise ==
    [raised |-> TRUE, value |-> <<>>, log |-> <<ErrorEntry("Errore fetch dati")>>]

\* `except Exception` of get_offers_ranking: log, return [].
OnFetchError ==
    [raised |-> FALSE, value |-> <<>>, log |-> <<ErrorEntry("Errore fetch dati")>>]

\* get_offers_ranking on a network outcome and the payload of the response.
get_offers_ranking(outcome, payload) ==
    LET token == get_auth_token(outcome)
    IN  IF token.raised
        THEN [OnFetchError EXCEPT !.log = <<ErrorEntry("Errore auth")>> \o @]
        ELSE IF outcome = "request_failed"
        THEN OnFetchError
        ELSE LET built == BuildAll(payload)
             IN  IF built.raised
                 THEN OnFetchError
                 ELSE [raised |-> FALSE, value |-> built.value, log |-> <<>>]

\* ------------------------------------------------------------------ PriceIntelligenceEngine
\* Mutant: leadership read from the rank without shipping.
IsWinning_ByListRank(p) == p.rank = 1

\* p.is_winning = (p.rank_with_shipping == 1)
IsWinning(p) == p.rank_with_shipping = 1

\* Mutant: the operands of the difference exchanged.
Gap_Reversed(p) == p.min_price_shipping_market - p.total_cost

\* Mutant: the gap added to the gap the record already holds.
Gap_Accumulating(p) ==
    p.total_cost - p.min_price_shipping_market
    + (IF p.price_gap.some THEN p.price_gap.n ELSE 0)

\* gap = p.total_cost - p.min_price_shipping_market
Gap(p) == p.total_cost - p.min_price_shipping_market

\* Mutant: the loop body also recomputes total_cost from its parts.
EnrichRecord_Reconciles(p) ==
    [p EXCEPT !.is_winning = (p.rank_with_shipping = 1),
              !.price_gap = Some(Round2(p.total_cost - p.min_price_shipping_market)),
              !.total_cost = p.my_price + p.shipping_cost]

\* The two assignments of the loop body.
EnrichRecord(p) ==
    [p EXCEPT !.is_winning = IsWinning(p),
              !.price_gap = Some(Round2(Gap(p)))]

\* The condition of the ALERT warning, read on the enriched record.
LosingTopSeller(q) ==
    ~q.is_winning /\ q.popularity_index <= HighPriorityPopularityMax

AlertEntry(q) ==
    [level |-> "WARNING", event |-> "ALERT", product |-> q.product_name,
     gap |-> q.price_gap]

\* Mutant: only the records that are not winning are returned.
enrich_data_LosersOnly(ps) ==
    SelectSeq([i \in 1..Len(ps) |-> EnrichRecord(ps[i])],
              LAMBDA q : ~q.is_winning)

\* The collection enrich_data returns.
enrich_data(ps) == [i \in 1..Len(ps) |-> EnrichRecord(ps[i])]

\* The warnings enrich_data logs, in the order of the collection.
RECURSIVE EnrichLog(_)
EnrichLog(ps) ==
    IF ps = <<>> THEN <<>>
    ELSE LET q == EnrichRecord(Head(ps))
         IN  (IF LosingTopSeller(q) THEN <<AlertEntry(q)>> ELSE <<>>)
             \o EnrichLog(Tail(ps))

\* ------------------------------------------------------------------ state machine
Init ==
    /\ pc = "idle"
    /\ net = "none"
    /\ raw_data = <<>>
    /\ products = <<>>
    /\ raised = FALSE
    /\ log = <<>>
    /\ calls = 0

\* client.get_offers_ranking(): token, request, parse, build.
GetOffersRanking ==
    /\ pc = "idle"
    /\ \E outcome \in NetOutcomes, payload \in Payloads :
          LET r == get_offers_ranking(outcome, payload)
          IN  /\ outcome # "ok" => payload = <<>>
              /\ net' = outcome
              /\ raw_data' = payload
              /\ products' = r.value
              /\ raised' = r.raised
              /\ log' = log \o r.log
              /\ pc' = IF r.raised THEN "crashed" ELSE "fetched"
    /\ UNCHANGED calls

\* load_data_advanced(): the mock data, built and enriched.
LoadDataAdvanced ==
    /\ pc = "idle"
    /\ LET built == BuildAll(get_mock_data)
       IN  /\ raw_data' = get_mock_data
           /\ raised' = built.raised
           /\ IF built.raised
              THEN /\ pc' = "crashed"
                   /\ UNCHANGED <<products, log, calls>>
              ELSE /\ pc' = "enriched"
                   /\ products' = enrich_data(built.value)
                   /\ log' = log \o EnrichLog(built.value)
                   /\ calls' = calls + 1
    /\ UNCHANGED net

\* PriceIntelligenceEngine.enrich_data(products) on the current collection.
EnrichData ==
    /\ pc \in {"fetched", "enriched"}
    /\ calls < MaxEnrichCalls
    /\ products' = enrich_data(products)
    /\ log' = log \o EnrichLog(products)
    /\ calls' = calls + 1
    /\ pc' = "enriched"
    /\ UNCHANGED <<net, raw_data, raised>>

Next ==
    \/ GetOffersRanking
    \/ LoadDataAdvanced
    \/ EnrichData

Spec == Init /\ [][Next]_vars

\* ------------------------------------------------------------------ helpers of the properties
\* A step that is a call of enrich_data on an existing collection.
EnrichCall == pc # "idle" /\ calls' = calls + 1

Indices == 1..Len(products)

WholeCents(x) == x % Cent = 0

\* The fields of a record that come from the source.
SourceFields(p) ==
    <<p.sku, p.category, p.product_name, p.my_price, p.shipping_cost,
      p.total_cost, p.min_price_market, p.min_price_shipping_market, p.rank,
      p.rank_with_shipping, p.competitors_count, p.offers_count,
      p.popularity_index, p.best_offers>>

\* The fields enrich_data computes.
DerivedFields(p) == <<p.price_gap, p.is_winning>>

\* ------------------------------------------------------------------ C1
\* C1: after enrich_data, every record of the batch has is_winning true
\* exactly when its rank_with_shipping is 1, whatever is_winning held before.
C1_WinningIffRankOne ==
    pc = "enriched" =>
        \A i \in Indices :
            products[i].is_winning <=> (products[i].rank_with_shipping = 1)

\* An enriched batch with a winner and with a record whose source had set
\* is_winning although it is not first with shipping.
C1_Witness ==
    /\ pc = "enriched"
    /\ net = "ok"
    /\ \E i \in Indices : products[i].is_winning /\ products[i].rank # 1
    /\ \E j \in Indices :
          /\ raw_data[j].is_winning = Bool(TRUE)
          /\ products[j].rank_with_shipping # 1
          /\ ~products[j].is_winning

\* ------------------------------------------------------------------ C2
\* C2: after enrich_data, a record whose total_cost and
\* min_price_shipping_market are whole cents has price_gap equal to their
\* difference, a whole number of cents, positive exactly when total_cost is
\* higher, zero exactly when they are equal, negative exactly when lower.
C2_PriceGap ==
    pc = "enriched" =>
        \A i \in Indices :
            LET p == products[i]
                t == p.total_cost
                m == p.min_price_shipping_market
            IN  (WholeCents(t) /\ WholeCents(m)) =>
                    /\ p.price_gap.some
                    /\ WholeCents(p.price_gap.n)
                    /\ p.price_gap.n = t - m
                    /\ (p.price_gap.n > 0) <=> (t > m)
                    /\ (p.price_gap.n = 0) <=> (t = m)
                    /\ (p.price_gap.n < 0) <=> (t < m)

\* An enriched batch holding a positive, a zero and a negative gap.
C2_Witness ==
    /\ pc = "enriched"
    /\ \E i, j, k \in Indices :
          /\ products[i].price_gap = Some(1 * Unit)
          /\ products[j].price_gap = Some(0)
          /\ products[j].total_cost > 0
          /\ products[k].price_gap.some
          /\ products[k].price_gap.n < 0

\* ------------------------------------------------------------------ C3
\* The alert level the classification rule gives an enriched record: gap
\* above 1.00 is CRITICAL, otherwise WARNING, for a losing record within the
\* popularity limit; STABLE for every other record.
ExpectedAlertLevel(p) ==
    IF ~p.is_winning /\ p.popularity_index <= HighPriorityPopularityMax
    THEN IF p.price_gap.n > 1 * Unit THEN "CRITICAL" ELSE "WARNING"
    ELSE "STABLE"

\* C3: after enrich_data, every record carries an alert_level, and it is the
\* one the classification rule gives.
C3_AlertLevel ==
    pc = "enriched" =>
        \A i \in Indices :
            /\ "alert_level" \in DOMAIN products[i]
            /\ products[i].alert_level = ExpectedAlertLevel(products[i])

\* ------------------------------------------------------------------ C4
\* C4: every constructed record, before and after enrich_data, has
\* total_cost equal to my_price + shipping_cost.
C4_TotalCostIsSum ==
    \A i \in Indices :
        products[i].total_cost = products[i].my_price + products[i].shipping_cost

\* ------------------------------------------------------------------ C5
ErrorCount == Len(SelectSeq(log, LAMBDA e : e.level = "ERROR"))

\* C5: when the service answered, the collection holds one record for every
\* valid item of the payload, in the payload's order, and one failure is
\* captured for every invalid item.
C5_PartialFailure ==
    (pc \in {"fetched", "enriched"} /\ net = "ok") =>
        LET valid == SelectSeq(raw_data, ProductRankingOk)
        IN  /\ Len(products) = Len(valid)
            /\ \A i \in Indices :
                  SourceFields(products[i]) = SourceFields(ProductRanking(valid[i]))
            /\ ErrorCount = Len(raw_data) - Len(valid)

\* ------------------------------------------------------------------ C6
\* C6: when the token request or the OffersRanking request failed,
\* get_offers_ranking returned the empty collection and no exception escaped.
C6_UnreachableGivesEmpty ==
    net \in {"token_failed", "request_failed"} =>
        /\ products = <<>>
        /\ ~raised
        /\ pc # "crashed"

\* get_offers_ranking has returned after a failed request.
C6_Witness ==
    /\ pc = "fetched"
    /\ net \in {"token_failed", "request_failed"}
    /\ ErrorCount > 0

\* ------------------------------------------------------------------ C7
\* C7: a call of enrich_data returns a collection of the same length with
\* the same records (by sku) at the same positions.
C7_SameCollection ==
    [][EnrichCall =>
          /\ Len(products') = Len(products)
          /\ \A i \in Indices : products'[i].sku = products[i].sku]_vars

\* An enriched batch of several distinct products, one of them winning.
C7_Witness ==
    /\ pc = "enriched"
    /\ net = "ok"
    /\ Len(products) >= 2
    /\ \E i, j \in Indices :
          /\ products[i].sku # products[j].sku
          /\ products[i].is_winning
          /\ ~products[j].is_winning

\* ------------------------------------------------------------------ C8
\* C8: a call of enrich_data leaves every source field of every record
\* (best_offers with its order included) as it was.
C8_FrameOfEnrich ==
    [][EnrichCall =>
          \A i \in Indices \cap (1..Len(products')) :
              SourceFields(products'[i]) = SourceFields(products[i])]_vars

\* An enriched record whose total was not the sum of its parts and one with
\* two offers.
C8_Witness ==
    /\ pc = "enriched"
    /\ net = "ok"
    /\ \E i, j \in Indices :
          /\ products[i].total_cost # products[i].my_price + products[i].shipping_cost
          /\ products[i].price_gap.some
          /\ Len(products[j].best_offers) = 2
          /\ products[j].price_gap.some

\* ------------------------------------------------------------------ C9
\* C9: a second or later call of enrich_data leaves price_gap and
\* is_winning of every record as the call before left them.
C9_Idempotent ==
    [][(EnrichCall /\ calls >= 1) =>
          /\ Len(products') = Len(products)
          /\ \A i \in Indices :
                DerivedFields(products'[i]) = DerivedFields(products[i])]_vars

\* enrich_data has run twice on a batch with a non-zero gap and a winner.
C9_Witness ==
    /\ calls = 2
    /\ \E i, j \in Indices :
          /\ products[i].price_gap.some
          /\ products[i].price_gap.n # 0
          /\ products[j].is_winning

\* ------------------------------------------------------------------ C10
RequiredKeys(item) ==
    <<item.Sku, item.Category, item.Product, item.Price, item.ShippingCost,
      item.TotalCost, item.MinPrice, item.MinPriceWithShippingCost, item.Rank,
      item.RankWithShippingCost, item.NbMerchants, item.NbOffers,
      item.Popularity>>

NumericKeys(item) == SubSeq(RequiredKeys(item), 4, 13)

MonetaryKeys(item) ==
    SubSeq(RequiredKeys(item), 4, 8)
    \o (IF item.BestOffers.kind = "list"
        THEN [i \in 1..Len(item.BestOffers.items) |-> item.BestOffers.items[i].Price]
        ELSE <<>>)

\* A required field is missing, a numeric field is non-numeric, or a
\* monetary value is negative.
Defective(item) ==
    \/ \E i \in 1..13 : RequiredKeys(item)[i].kind = "absent"
    \/ \E i \in DOMAIN NumericKeys(item) : NumericKeys(item)[i].kind = "str"
    \/ \E i \in DOMAIN MonetaryKeys(item) :
          MonetaryKeys(item)[i].kind = "num" /\ MonetaryKeys(item)[i].n < 0

NoNegativeAmount(p) ==
    /\ p.my_price >= 0
    /\ p.shipping_cost >= 0
    /\ p.total_cost >= 0
    /\ p.min_price_market >= 0
    /\ p.min_price_shipping_market >= 0
    /\ \A i \in 1..Len(p.best_offers) : p.best_offers[i].price >= 0

\* C10: no record is constructed from a payload holding an item with a
\* missing required field, a non-numeric numeric field or a negative
\* monetary value, and no constructed record holds a negative amount.
C10_RejectsDefectiveItems ==
    /\ \A i \in Indices : NoNegativeAmount(products[i])
    /\ (net = "ok" /\ \E i \in 1..Len(raw_data) : Defective(raw_data[i]))
          => products = <<>>

\* ------------------------------------------------------------------ C11
\* The item is valid in everything but, possibly, BestOffers.
ValidBesidesBestOffers(item) ==
    ProductRankingOk([item EXCEPT !.BestOffers = List(<<>>)])

\* The offer of a record is the raw offer it was built from.
SameOffer(o, r) ==
    /\ o.price = r.Price.n
    /\ o.merchant = r.Merchant.s
    /\ o.rating = Some(r.Rating.n)

\* C11: an item that is valid in its other fields and whose BestOffers is
\* null or absent is constructed, with best_offers the empty sequence; a
\* record built from an item whose BestOffers is a list holds the same
\* offers in the same order.
C11_BestOffersDefault ==
    (pc = "fetched" /\ net = "ok") =>
        /\ (\A i \in 1..Len(raw_data) :
                /\ ValidBesidesBestOffers(raw_data[i])
                /\ raw_data[i].BestOffers.kind \in {"null", "absent"})
              => Len(products) = Len(raw_data)
        /\ \A i \in Indices :
              LET b == raw_data[i].BestOffers
                  o == products[i].best_offers
              IN  /\ b.kind \in {"null", "absent"} => o = <<>>
                  /\ b.kind = "list" =>
                        /\ Len(o) = Len(b.items)
                        /\ \A k \in 1..Len(o) : SameOffer(o[k], b.items[k])

\* A batch built from an item with BestOffers null, one with BestOffers
\* absent and one with a list of two offers.
C11_Witness ==
    /\ pc = "fetched"
    /\ net = "ok"
    /\ \E i, j, k \in Indices :
          /\ raw_data[i].BestOffers = Null
          /\ raw_data[j].BestOffers = Absent
          /\ raw_data[k].BestOffers.kind = "list"
          /\ Len(products[k].best_offers) = 2
          /\ products[k].best_offers[1].merchant # products[k].best_offers[2].merchant

\* ------------------------------------------------------------------ C12
\* C12: no two records of a batch have the same sku.
C12_SkuUnique ==
    \A i, j \in Indices : i # j => products[i].sku # products[j].sku

====
